---- MODULE Spec2Model ----
(***************************************************************************)
(* Model of packages/core/database/lib/query/query-builder.js: the fluent  *)
(* query builder (createQueryBuilder), its mutable `state`, the column     *)
(* resolver, the sub-query rewrite and the compile step (getKnexQuery).    *)
(*                                                                         *)
(* JavaScript values are tagged records ([t |-> "null"], [t |-> "number",  *)
(* v |-> 2], ...).  A column string is [t |-> "string", q, n]: q is the    *)
(* part before the '.' (<<>> when the string holds no '.'), n the rest.    *)
(* An alias token `t${k}` is the sequence <<"t", k>>.                      *)
(* A native (knex) query is [table, calls]: the table binding and the      *)
(* sequence of builder methods called on it, in call order.                *)
(***************************************************************************)
EXTENDS Integers, Sequences, FiniteSets, TLC

VARIABLES state, counter, alias, db, obs, steps, exec, issued, peer

vars == <<state, counter, alias, db, obs, steps, exec, issued, peer>>

----------------------------------------------------------------------------
(* Bounds *)

MaxSteps == 4       \* calls made on one builder instance
MaxSelect == 4      \* length of state.select (grows at compile time)
MaxWhere == 2       \* length of state.where
MaxJoins == 1       \* length of state.joins

----------------------------------------------------------------------------
(* JavaScript values *)

Undefined == [t |-> "undefined"]
Null == [t |-> "null"]
Num(n) == [t |-> "number", v |-> n]
Str(s) == [t |-> "text", v |-> s]
Arr(s) == [t |-> "array", v |-> s]
Obj(id) == [t |-> "object", id |-> id, norm |-> FALSE]
Raw == [t |-> "raw", q |-> <<>>, n |-> "raw"]

NoQ == <<>>
Col(q, n) == [t |-> "string", q |-> q, n |-> n]
Tok(k) == <<"t", k>>

Id == Col(NoQ, "id")
Name == Col(NoQ, "name")
Star == Col(NoQ, "*")

isNil(v) == v.t \in {"undefined", "null"}
isPlainObject(v) == v.t = "object"
castArray(v) == IF v.t = "array" THEN v.v ELSE <<v>>
Truthy(v) ==
    CASE v.t \in {"undefined", "null"} -> FALSE
      [] v.t = "number" -> v.v # 0
      [] v.t = "text" -> v.v # ""
      [] OTHER -> TRUE

Range(s) == {s[i] : i \in DOMAIN s}

RECURSIVE uniq(_)
uniq(s) ==
    IF s = <<>> THEN <<>>
    ELSE LET r == uniq(SubSeq(s, 1, Len(s) - 1))
             x == s[Len(s)]
         IN IF x \in Range(r) THEN r ELSE Append(r, x)

tableName == "table"

----------------------------------------------------------------------------
(* The query state and the fluent setters (state -> state) *)

state0 ==
    [type |-> "select", select |-> <<>>, count |-> Null, first |-> FALSE,
     data |-> Null, where |-> <<>>, joins |-> <<>>, populate |-> Null,
     limit |-> Null, offset |-> Null, orderBy |-> <<>>, groupBy |-> <<>>,
     search |-> Undefined]

Fields == DOMAIN state0

\* the allocator without the increment
getAlias_same(c) == [token |-> Tok(c), counter |-> c]

\* c is the counter of the builder instance: the token and the counter after
getAlias(c) == [token |-> Tok(c), counter |-> c + 1]

select(s, args) == [s EXCEPT !.type = "select", !.select = uniq(castArray(args))]

addSelect(s, args) == [s EXCEPT !.select = uniq(s.select \o castArray(args))]

insert(s, data) == [s EXCEPT !.type = "insert", !.data = data]

delete(s) == [s EXCEPT !.type = "delete"]

update(s, data) == [s EXCEPT !.type = "update", !.data = data]

count(s, c) == [s EXCEPT !.type = "count", !.count = IF c = Undefined THEN Star ELSE c]

whereThrows(w) == ~isPlainObject(IF w = Undefined THEN Obj("empty") ELSE w)

\* the descriptor replacing the list instead of being pushed onto it
where_replace(s, w) ==
    IF whereThrows(w) THEN s
    ELSE [s EXCEPT !.where = <<IF w = Undefined THEN Obj("empty") ELSE w>>]

where(s, w) ==
    IF whereThrows(w) THEN s
    ELSE [s EXCEPT !.where = Append(s.where, IF w = Undefined THEN Obj("empty") ELSE w)]

\* limit also clearing the offset
limit_resetOffset(s, l) == [s EXCEPT !.limit = l, !.offset = Null]

limit(s, l) == [s EXCEPT !.limit = l]

offset(s, o) == [s EXCEPT !.offset = o]

orderBy(s, o) == [s EXCEPT !.orderBy = o]

groupBy(s, g) == [s EXCEPT !.groupBy = g]

populate(s, p) == [s EXCEPT !.populate = p]

search(s, q) == [s EXCEPT !.search = q]

first(s) == [s EXCEPT !.first = TRUE]

join(s, j) == [s EXCEPT !.joins = Append(s.joins, j)]

----------------------------------------------------------------------------
(* init: the bulk entry point.  params is a record whose DOMAIN is the set *)
(* of keys present in the options object ("q" stands for _q); the value of *)
(* a present key may still be null.                                        *)

InitKeys == {"where", "q", "select", "limit", "offset", "orderBy", "groupBy", "populate"}

Has(params, k) == k \in DOMAIN params

\* _.isNil of the value destructured from params (orderBy / groupBy
\* values of the model are never null)
nilKey(params, k) ==
    ~Has(params, k) \/ (k \notin {"orderBy", "groupBy"} /\ isNil(params[k]))

initWhere(s, params) ==
    IF ~nilKey(params, "where") THEN where(s, params["where"]) ELSE s

initSearch(s, params) ==
    IF ~nilKey(params, "q") THEN search(s, params["q"]) ELSE s

\* the else branch forgotten: no default select list
initSelect_noDefault(s, params) ==
    IF ~nilKey(params, "select") THEN select(s, params["select"]) ELSE s

initSelect(s, params) ==
    IF ~nilKey(params, "select") THEN select(s, params["select"]) ELSE select(s, Star)

initLimit(s, params) ==
    IF ~nilKey(params, "limit") THEN limit(s, params["limit"]) ELSE s

initOffset(s, params) ==
    IF ~nilKey(params, "offset") THEN offset(s, params["offset"]) ELSE s

initOrderBy(s, params) ==
    IF ~nilKey(params, "orderBy") THEN orderBy(s, params["orderBy"]) ELSE s

initGroupBy(s, params) ==
    IF ~nilKey(params, "groupBy") THEN groupBy(s, params["groupBy"]) ELSE s

initPopulate(s, params) ==
    IF ~nilKey(params, "populate") THEN populate(s, params["populate"]) ELSE s

\* the setter init invokes for key k, if any
initCall(params, k, setter) ==
    IF ~nilKey(params, k) THEN <<[setter |-> setter, arg |-> params[k]]>>
    ELSE IF k = "select" THEN <<[setter |-> "select", arg |-> Star]>>
    ELSE <<>>

\* the setters init invokes, in the order of its statements
initCalls(params) ==
    initCall(params, "where", "where") \o initCall(params, "q", "search")
      \o initCall(params, "select", "select") \o initCall(params, "limit", "limit")
      \o initCall(params, "offset", "offset") \o initCall(params, "orderBy", "orderBy")
      \o initCall(params, "groupBy", "groupBy") \o initCall(params, "populate", "populate")

\* the state after init, the setters it invoked and whether it threw (the
\* throw of this.where(where) leaves init before any other setter runs)
init(s, params) ==
    IF ~nilKey(params, "where") /\ whereThrows(params["where"])
    THEN [state |-> s, threw |-> TRUE, calls |-> initCall(params, "where", "where")]
    ELSE [state |-> initPopulate(initGroupBy(initOrderBy(initOffset(initLimit(
                      initSelect(initSearch(initWhere(s, params), params), params),
                      params), params), params), params), params),
          threw |-> FALSE,
          calls |-> initCalls(params)]

----------------------------------------------------------------------------
(* Column resolver *)

\* update treated as a kind that binds the table under the alias
mustUseAlias_update(s) == s.type \in {"select", "count", "update"}

mustUseAlias(s) == s.type \in {"select", "count"}

\* columnName.indexOf('.') >= 0
hasDot(columnName) == columnName.q # NoQ

\* a is the optional explicit alias: Undefined, Null or a token <<"t", k>>
\* wrapped as [t |-> "alias", v |-> token]
aliasColumn(s, this, columnName, a) ==
    IF columnName.t # "string" THEN columnName
    ELSE IF hasDot(columnName) THEN columnName
    ELSE IF ~isNil(a) THEN Col(a.v, columnName.n)
    ELSE IF mustUseAlias(s) THEN Col(this, columnName.n) ELSE columnName

----------------------------------------------------------------------------
(* Clause processors of ./helpers (processOrderBy, processWhere,           *)
(* processPopulate, applyWhere, applyJoins)                                *)

processOrderBy(o, s, this) ==
    [i \in DOMAIN o |->
        [column |-> aliasColumn(s, this, o[i].column, Undefined),
         order |-> IF o[i].order = "" THEN "asc" ELSE o[i].order]]

\* the Where-processor fails (InvalidFilter) on a descriptor it cannot resolve
processWhereThrows(w) == \E i \in DOMAIN w : w[i].id = "bad"

processWhere(w) == [i \in DOMAIN w |-> [w[i] EXCEPT !.norm = TRUE]]

processPopulate(p) == IF isNil(p) THEN p ELSE [p EXCEPT !.norm = TRUE]

Call(qb, op, arg) == [qb EXCEPT !.calls = Append(@, [op |-> op, arg |-> arg])]

applyWhere(qb, w) ==
    [qb EXCEPT !.calls = @ \o [i \in DOMAIN w |-> [op |-> "where", arg |-> <<w[i]>>]]]

applyJoins(qb, j) ==
    [qb EXCEPT !.calls = @ \o [i \in DOMAIN j |-> [op |-> "join", arg |-> <<j[i]>>]]]

----------------------------------------------------------------------------
(* Compile *)

NoAlias == <<>>

\* db.connection(table): an empty native query bound to the table
connection(name, al) == [table |-> [name |-> name, alias |-> al], calls |-> <<>>]

\* the rewrite taken for every delete / update, joined or not
shouldUseSubQuery_noJoins(s) == s.type \in {"delete", "update"}

shouldUseSubQuery(s) == s.type \in {"delete", "update"} /\ Len(s.joins) > 0

processState(s, this) ==
    LET s1 == [s EXCEPT !.orderBy = processOrderBy(s.orderBy, s, this)]
        s2 == [s1 EXCEPT !.where = processWhere(s1.where)]
    IN [s2 EXCEPT !.populate = processPopulate(s2.populate)]

\* _.isEmpty(state.groupBy)
isEmpty(g) == Len(g) = 0

\* the distinct injected for every joined select, grouped or not
opClause_distinctAlways(s, this, d, qb) ==
    CASE s.type = "select" ->
           LET sel1 == IF Len(s.select) = 0 THEN <<Star>> ELSE s.select
               dist == Len(s.joins) > 0
               sel2 == IF dist
                       THEN [i \in DOMAIN s.orderBy |-> s.orderBy[i].column] \o sel1
                       ELSE sel1
               s2 == [s EXCEPT !.select = sel2]
               qb1 == IF dist
                      THEN Call(qb, "distinct", <<aliasColumn(s2, this, Id, Undefined)>>)
                      ELSE qb
           IN [state |-> s2,
               query |-> Call(qb1, "select",
                              [i \in DOMAIN sel2 |-> aliasColumn(s2, this, sel2[i], Undefined)])]
      [] s.type = "count" ->
           [state |-> s, query |-> Call(qb, "count", <<s.count>>)]
      [] s.type = "insert" ->
           LET qb1 == Call(qb, "insert", <<s.data>>)
           IN [state |-> s,
               query |-> IF d.useReturning /\ d.hasId
                         THEN Call(qb1, "returning", <<Id>>) ELSE qb1]
      [] s.type = "update" ->
           [state |-> s, query |-> Call(qb, "update", <<s.data>>)]
      [] s.type = "delete" ->
           [state |-> s, query |-> Call(qb, "delete", <<>>)]
      [] OTHER ->
           \* case 'truncate' calls db.truncate(), not the native query
           [state |-> s, query |-> qb]

\* the insert asking for the key back without looking at the metadata
opClause_returningNoId(s, this, d, qb) ==
    CASE s.type = "select" ->
           LET sel1 == IF Len(s.select) = 0 THEN <<Star>> ELSE s.select
               dist == Len(s.joins) > 0 /\ isEmpty(s.groupBy)
               sel2 == IF dist
                       THEN [i \in DOMAIN s.orderBy |-> s.orderBy[i].column] \o sel1
                       ELSE sel1
               s2 == [s EXCEPT !.select = sel2]
               qb1 == IF dist
                      THEN Call(qb, "distinct", <<aliasColumn(s2, this, Id, Undefined)>>)
                      ELSE qb
           IN [state |-> s2,
               query |-> Call(qb1, "select",
                              [i \in DOMAIN sel2 |-> aliasColumn(s2, this, sel2[i], Undefined)])]
      [] s.type = "count" ->
           [state |-> s, query |-> Call(qb, "count", <<s.count>>)]
      [] s.type = "insert" ->
           LET qb1 == Call(qb, "insert", <<s.data>>)
           IN [state |-> s,
               query |-> IF d.useReturning
                         THEN Call(qb1, "returning", <<Id>>) ELSE qb1]
      [] s.type = "update" ->
           [state |-> s, query |-> Call(qb, "update", <<s.data>>)]
      [] s.type = "delete" ->
           [state |-> s, query |-> Call(qb, "delete", <<>>)]
      [] OTHER ->
           \* case 'truncate' calls db.truncate(), not the native query
           [state |-> s, query |-> qb]

\* the switch on state.type: the state and the native query after it
opClause(s, this, d, qb) ==
    CASE s.type = "select" ->
           LET sel1 == IF Len(s.select) = 0 THEN <<Star>> ELSE s.select
               dist == Len(s.joins) > 0 /\ isEmpty(s.groupBy)
               sel2 == IF dist
                       THEN [i \in DOMAIN s.orderBy |-> s.orderBy[i].column] \o sel1
                       ELSE sel1
               s2 == [s EXCEPT !.select = sel2]
               qb1 == IF dist
                      THEN Call(qb, "distinct", <<aliasColumn(s2, this, Id, Undefined)>>)
                      ELSE qb
           IN [state |-> s2,
               query |-> Call(qb1, "select",
                              [i \in DOMAIN sel2 |-> aliasColumn(s2, this, sel2[i], Undefined)])]
      [] s.type = "count" ->
           [state |-> s, query |-> Call(qb, "count", <<s.count>>)]
      [] s.type = "insert" ->
           LET qb1 == Call(qb, "insert", <<s.data>>)
           IN [state |-> s,
               query |-> IF d.useReturning /\ d.hasId
                         THEN Call(qb1, "returning", <<Id>>) ELSE qb1]
      [] s.type = "update" ->
           [state |-> s, query |-> Call(qb, "update", <<s.data>>)]
      [] s.type = "delete" ->
           [state |-> s, query |-> Call(qb, "delete", <<>>)]
      [] OTHER ->
           \* case 'truncate' calls db.truncate(), not the native query
           [state |-> s, query |-> qb]

\* the joins applied before the filters
commonClauses_joinsFirst(s, this, qb) ==
    LET q0 == IF Len(s.joins) > 0 THEN applyJoins(qb, s.joins) ELSE qb
        q1 == IF Truthy(s.limit) THEN Call(q0, "limit", <<s.limit>>) ELSE q0
        q2 == IF Truthy(s.offset) THEN Call(q1, "offset", <<s.offset>>) ELSE q1
        q3 == IF Len(s.orderBy) > 0 THEN Call(q2, "orderBy", s.orderBy) ELSE q2
        q4 == IF s.first THEN Call(q3, "first", <<>>) ELSE q3
        q5 == IF Len(s.groupBy) > 0 THEN Call(q4, "groupBy", s.groupBy) ELSE q4
        q6 == applyWhere(q5, s.where)
    IN IF Truthy(s.search) THEN Call(q6, "search", <<s.search, this>>) ELSE q6

\* a limit clause for every limit that is not null, zero included
commonClauses_limitZero(s, this, qb) ==
    LET q1 == IF ~isNil(s.limit) THEN Call(qb, "limit", <<s.limit>>) ELSE qb
        q2 == IF Truthy(s.offset) THEN Call(q1, "offset", <<s.offset>>) ELSE q1
        q3 == IF Len(s.orderBy) > 0 THEN Call(q2, "orderBy", s.orderBy) ELSE q2
        q4 == IF s.first THEN Call(q3, "first", <<>>) ELSE q3
        q5 == IF Len(s.groupBy) > 0 THEN Call(q4, "groupBy", s.groupBy) ELSE q4
        q6 == applyWhere(q5, s.where)
        q7 == IF Truthy(s.search)
              THEN Call(q6, "search", <<s.search, this>>) ELSE q6
    IN IF Len(s.joins) > 0 THEN applyJoins(q7, s.joins) ELSE q7

\* lines 276-310: the clauses applied after the switch
commonClauses(s, this, qb) ==
    LET q1 == IF Truthy(s.limit) THEN Call(qb, "limit", <<s.limit>>) ELSE qb
        q2 == IF Truthy(s.offset) THEN Call(q1, "offset", <<s.offset>>) ELSE q1
        q3 == IF Len(s.orderBy) > 0 THEN Call(q2, "orderBy", s.orderBy) ELSE q2
        q4 == IF s.first THEN Call(q3, "first", <<>>) ELSE q3
        q5 == IF Len(s.groupBy) > 0 THEN Call(q4, "groupBy", s.groupBy) ELSE q4
        q6 == applyWhere(q5, s.where)
        q7 == IF Truthy(s.search)
              THEN Call(q6, "search", <<s.search, this>>) ELSE q6
    IN IF Len(s.joins) > 0 THEN applyJoins(q7, s.joins) ELSE q7

RECURSIVE getKnexQuery(_, _, _)
RECURSIVE runSubQuery(_, _, _)

\* the inner query selecting every column instead of the primary key
runSubQuery_star(s, this, d) ==
    LET s1 == select(s, Star)
        sub == getKnexQuery(s1, this, d)
        nestedSubQuery ==
            Call(Call(connection("", NoAlias), "select", <<Id>>),
                 "from", <<[as |-> "subQuery", query |-> sub.query]>>)
    IN [state |-> sub.state,
        query |-> IF sub.threw THEN sub.query
                  ELSE Call(Call(connection(tableName, NoAlias), sub.state.type, <<>>),
                            "whereIn", <<Id, nestedSubQuery>>),
        threw |-> sub.threw,
        events |-> <<"runSubQuery">> \o sub.events]

\* threw: an error of a clause processor left the compile; events: the
\* methods entered, in order
runSubQuery(s, this, d) ==
    LET s1 == select(s, Id)
        sub == getKnexQuery(s1, this, d)
        subQB == sub.query
        nestedSubQuery ==
            Call(Call(connection("", NoAlias), "select", <<Id>>),
                 "from", <<[as |-> "subQuery", query |-> subQB]>>)
    IN [state |-> sub.state,
        query |-> IF sub.threw THEN sub.query
                  ELSE Call(Call(connection(tableName, NoAlias), sub.state.type, <<>>),
                            "whereIn", <<Id, nestedSubQuery>>),
        threw |-> sub.threw,
        events |-> <<"runSubQuery">> \o sub.events]

getKnexQuery(s, this, d) ==
    LET s0 == IF s.type = "" THEN select(s, Star) ELSE s
        aliasedTableName == IF mustUseAlias(s0) THEN this ELSE NoAlias
        qb == connection(tableName, aliasedTableName)
    IN IF shouldUseSubQuery(s0)
       THEN LET sub == runSubQuery(s0, this, d)
            IN [sub EXCEPT !.events = <<"getKnexQuery">> \o @]
       ELSE IF processWhereThrows(s0.where)
       THEN \* line 211 throws after line 210 assigned state.orderBy
            [state |-> [s0 EXCEPT !.orderBy = processOrderBy(s0.orderBy, s0, this)],
             query |-> qb,
             threw |-> TRUE,
             events |-> <<"getKnexQuery", "processState">>]
       ELSE LET s1 == processState(s0, this)
                r == opClause(s1, this, d, qb)
            IN [state |-> r.state,
                query |-> commonClauses(r.state, this, r.query),
                threw |-> FALSE,
                events |-> <<"getKnexQuery", "processState", "switch", "clauses">>]

----------------------------------------------------------------------------
(* execute: the record x is the call in progress. pc is where the call     *)
(* stands, log the steps it has taken, rows what the native query gave,    *)
(* result what the call returned or threw, transformed the number of       *)
(* calls of db.dialect.transformErrors                                     *)

\* helpers.fromRow: the rows in entity shape
fromRow(rows) == [t |-> "entity", of |-> rows]

\* db.dialect.transformErrors never returns: it raises the transformed error
transformErrors(x, error) ==
    [x EXCEPT !.pc = "thrown", !.result = [t |-> "error", v |-> error]]

\* a handler that drops the error
catchError_swallow(x, error) ==
    [x EXCEPT !.pc = "returned", !.result = Undefined,
              !.log = Append(@, "return")]

\* lines 331-333
catchError(x, error) ==
    transformErrors([x EXCEPT !.transformed = @ + 1,
                              !.log = Append(@, "transformErrors")], error)

\* lines 325-330: the mapping of the rows and the return
finish(s, x) ==
    IF x.mapResults /\ s.type = "select"
    THEN [x EXCEPT !.pc = "returned", !.result = fromRow(x.rows),
                   !.log = @ \o <<"fromRow", "return">>]
    ELSE [x EXCEPT !.pc = "returned", !.result = x.rows,
                   !.log = Append(@, "return")]

\* the population started whatever the native query gave
afterRows_always(s, x, rows) ==
    IF Truthy(s.populate)
    THEN [x EXCEPT !.pc = "awaitPopulate", !.rows = rows,
                   !.log = Append(@, "applyPopulate")]
    ELSE finish(s, [x EXCEPT !.rows = rows])

\* lines 319-323: the native query has given rows
afterRows(s, x, rows) ==
    IF Truthy(s.populate) /\ ~isNil(rows)
    THEN [x EXCEPT !.pc = "awaitPopulate", !.rows = rows,
                   !.log = Append(@, "applyPopulate")]
    ELSE finish(s, [x EXCEPT !.rows = rows])

\* the query compiled a second time before it is awaited
executeStart_twice(s, this, d, x) ==
    LET r1 == getKnexQuery(s, this, d)
        r == getKnexQuery(r1.state, this, d)
        x1 == [x EXCEPT !.log = <<"compile">> \o r1.events \o <<"compile">> \o r.events]
    IN [state |-> r.state,
        exec |-> IF r.threw THEN catchError(x1, "compile")
                 ELSE [x1 EXCEPT !.pc = "awaitQuery", !.log = Append(@, "await")]]

\* lines 316-319: the compile, then the await of the native query
executeStart(s, this, d, x) ==
    LET r == getKnexQuery(s, this, d)
        x1 == [x EXCEPT !.log = <<"compile">> \o r.events]
    IN [state |-> r.state,
        exec |-> IF r.threw THEN catchError(x1, "compile")
                 ELSE [x1 EXCEPT !.pc = "awaitQuery", !.log = Append(@, "await")]]

----------------------------------------------------------------------------
(* Arguments the caller passes *)

ColSet == {Id, Name}

\* a single column, or an array of columns (empty, repeating, ordered)
SelectArgs ==
    ColSet \cup {Arr(<<>>), Arr(<<Name, Name>>), Arr(<<Name, Id>>), Arr(<<Id, Name, Id>>)}
DataArgs == {Obj("d1")}
CountArgs == {Undefined, Id}
WhereArgs == {Undefined, Obj("w1"), Null}
LimitArgs == {Num(0), Num(2)}
OffsetArgs == {Num(0), Num(1)}
OrderArgs == {<<[column |-> Name, order |-> ""]>>,
              <<[column |-> Id, order |-> "desc"], [column |-> Name, order |-> ""]>>}
GroupArgs == {<<Name>>}
PopulateArgs == {Obj("p1")}
\* a mapping the Where-processor rejects
InvalidWhereArgs == {Obj("bad")}
\* what the native query resolves with: nothing, or rows
RowsArgs == {Undefined, Null, Arr(<<Obj("r1")>>)}
SearchArgs == {Str("q")}
JoinArgs == {[alias |-> Tok(1), table |-> "other"]}
AliasArgs == {Undefined, Null, [t |-> "alias", v |-> Tok(1)]}
ColumnArgs == {Id, Name, Col(Tok(1), "name"), Raw}
\* the options objects of init: no key, one key, all keys
InitKeySets == {{}, InitKeys} \cup {{k} : k \in InitKeys}
InitWhereArgs == {Obj("w1"), Null, Str("x")}
InitSelectArgs == {Arr(<<Name>>), Null}

----------------------------------------------------------------------------
(* The builder: one action per method call *)

\* no execute call made yet
exec0 ==
    [pc |-> "idle", mapResults |-> TRUE, kind |-> "", log |-> <<>>,
     transformed |-> 0, rows |-> Undefined, result |-> Undefined]

Init ==
    /\ state = state0
    /\ counter = getAlias(0).counter
    /\ alias = getAlias(0).token
    /\ db \in [useReturning : BOOLEAN, hasId : BOOLEAN]
    /\ obs = [op |-> "createQueryBuilder", ret |-> "this"]
    /\ steps = 0
    /\ exec = exec0
    /\ issued = <<getAlias(0).token>>
    /\ peer = [counter |-> getAlias(0).counter, alias |-> getAlias(0).token,
               issued |-> <<getAlias(0).token>>]

\* a setter that returns `this`
\* an execute call is pending on one of its awaits
Running == exec.pc \in {"awaitQuery", "awaitPopulate"}

\* the builder has one caller, which configures it between execute calls,
\* not while one is pending
Set(op, s) ==
    /\ ~Running
    /\ state' = s
    /\ obs' = [op |-> op, ret |-> "this"]
    /\ steps' = steps + 1
    /\ UNCHANGED <<counter, alias, db, exec, issued, peer>>

Select ==
    \E a \in SelectArgs :
        /\ steps < MaxSteps
        /\ Set("select", select(state, a))

AddSelect ==
    \E a \in SelectArgs :
        /\ steps < MaxSteps
        /\ Len(addSelect(state, a).select) <= MaxSelect
        /\ Set("addSelect", addSelect(state, a))

Insert ==
    \E d \in DataArgs :
        /\ steps < MaxSteps
        /\ Set("insert", insert(state, d))

Delete ==
    /\ steps < MaxSteps
    /\ Set("delete", delete(state))

Update ==
    \E d \in DataArgs :
        /\ steps < MaxSteps
        /\ Set("update", update(state, d))

Count ==
    \E c \in CountArgs :
        /\ steps < MaxSteps
        /\ Set("count", count(state, c))

Where ==
    \E w \in WhereArgs :
        /\ steps < MaxSteps
        /\ ~Running
        /\ Len(state.where) < MaxWhere
        /\ state' = where(state, w)
        /\ obs' = [op |-> "where", ret |-> IF whereThrows(w) THEN "throw" ELSE "this",
                   arg |-> w]
        /\ steps' = steps + 1
        /\ UNCHANGED <<counter, alias, db, exec, issued, peer>>

Limit ==
    \E l \in LimitArgs :
        /\ steps < MaxSteps
        /\ Set("limit", limit(state, l))

Offset ==
    \E o \in OffsetArgs :
        /\ steps < MaxSteps
        /\ Set("offset", offset(state, o))

OrderBy ==
    \E o \in OrderArgs :
        /\ steps < MaxSteps
        /\ Set("orderBy", orderBy(state, o))

GroupBy ==
    \E g \in GroupArgs :
        /\ steps < MaxSteps
        /\ Set("groupBy", groupBy(state, g))

Populate ==
    \E p \in PopulateArgs :
        /\ steps < MaxSteps
        /\ Set("populate", populate(state, p))

Search ==
    \E q \in SearchArgs :
        /\ steps < MaxSteps
        /\ Set("search", search(state, q))

First ==
    /\ steps < MaxSteps
    /\ Set("first", first(state))

Join ==
    \E j \in JoinArgs :
        /\ steps < MaxSteps
        /\ Len(state.joins) < MaxJoins
        /\ Set("join", join(state, j))

AliasColumn ==
    \E c \in ColumnArgs, a \in AliasArgs :
        /\ steps < MaxSteps
        /\ obs' = [op |-> "aliasColumn", ret |-> "value", columnName |-> c,
                   alias |-> a, result |-> aliasColumn(state, alias, c, a)]
        /\ steps' = steps + 1
        /\ UNCHANGED <<state, counter, alias, db, exec, issued, peer>>

GetKnexQuery ==
    LET r == getKnexQuery(state, alias, db)
    IN /\ steps < MaxSteps
       /\ Len(r.state.select) <= MaxSelect
       /\ state' = r.state
       /\ obs' = [op |-> "getKnexQuery", ret |-> IF r.threw THEN "throw" ELSE "query",
                  type |-> state.type, query |-> r.query, events |-> r.events]
       /\ steps' = steps + 1
       /\ UNCHANGED <<counter, alias, db, exec, issued, peer>>

InitOp ==
    \E K \in InitKeySets :
      \E w \in (IF "where" \in K THEN InitWhereArgs ELSE {Undefined}),
         sel \in (IF "select" \in K THEN InitSelectArgs ELSE {Undefined}) :
        LET params == [k \in K |->
                         CASE k = "where" -> w
                           [] k = "q" -> Str("q")
                           [] k = "select" -> sel
                           [] k = "limit" -> Num(2)
                           [] k = "offset" -> Num(1)
                           [] k = "orderBy" -> <<[column |-> Name, order |-> ""]>>
                           [] k = "groupBy" -> <<Name>>
                           [] k = "populate" -> Obj("p1")]
            r == init(state, params)
        IN /\ steps < MaxSteps
           /\ Len(r.state.where) <= MaxWhere
           /\ state' = r.state
           /\ obs' = [op |-> "init", ret |-> IF r.threw THEN "throw" ELSE "this",
                      params |-> params, calls |-> r.calls]
           /\ steps' = steps + 1
           /\ UNCHANGED <<counter, alias, db, exec, issued, peer>>

WhereInvalid ==
    \E w \in InvalidWhereArgs :
        /\ steps < MaxSteps
        /\ ~Running
        /\ Len(state.where) < MaxWhere
        /\ state' = where(state, w)
        /\ obs' = [op |-> "where", ret |-> "this", arg |-> w]
        /\ steps' = steps + 1
        /\ UNCHANGED <<counter, alias, db, exec, issued, peer>>

Execute ==
    \E mapResults \in BOOLEAN :
        LET r == executeStart(state, alias, db,
                              [exec0 EXCEPT !.mapResults = mapResults,
                                            !.kind = state.type])
        IN /\ steps < MaxSteps
           /\ ~Running
           /\ Len(r.state.select) <= MaxSelect
           /\ state' = r.state
           /\ exec' = r.exec
           /\ obs' = [op |-> "execute", ret |-> "promise"]
           /\ steps' = steps + 1
           /\ UNCHANGED <<counter, alias, db, issued, peer>>

QueryResolves ==
    \E rows \in RowsArgs :
        /\ exec.pc = "awaitQuery"
        /\ exec' = afterRows(state, [exec EXCEPT !.log = Append(@, "rows")], rows)
        /\ UNCHANGED <<state, counter, alias, db, obs, steps, issued, peer>>

QueryRejects ==
    /\ exec.pc = "awaitQuery"
    /\ exec' = catchError([exec EXCEPT !.log = Append(@, "reject")], "native")
    /\ UNCHANGED <<state, counter, alias, db, obs, steps, issued, peer>>

PopulateResolves ==
    /\ exec.pc = "awaitPopulate"
    /\ exec' = finish(state, [exec EXCEPT !.log = Append(@, "populated")])
    /\ UNCHANGED <<state, counter, alias, db, obs, steps, issued, peer>>

PopulateRejects ==
    /\ exec.pc = "awaitPopulate"
    /\ exec' = catchError(exec, "populate")
    /\ UNCHANGED <<state, counter, alias, db, obs, steps, issued, peer>>

GetAlias ==
    LET r == getAlias(counter)
    IN /\ steps < MaxSteps
       /\ counter' = r.counter
       /\ issued' = Append(issued, r.token)
       /\ obs' = [op |-> "getAlias", ret |-> "value", result |-> r.token]
       /\ steps' = steps + 1
       /\ UNCHANGED <<state, alias, db, exec, peer>>

\* getAlias of a second builder, created by another createQueryBuilder call
PeerGetAlias ==
    LET r == getAlias(peer.counter)
    IN /\ steps < MaxSteps
       /\ peer' = [peer EXCEPT !.counter = r.counter,
                                !.issued = Append(@, r.token)]
       /\ obs' = [op |-> "peer.getAlias", ret |-> "value", result |-> r.token]
       /\ steps' = steps + 1
       /\ UNCHANGED <<state, counter, alias, db, exec, issued>>

\* configuring and compiling a query
Next ==
    \/ Select \/ AddSelect \/ Insert \/ Delete \/ Update \/ Count
    \/ Where \/ Limit \/ Offset \/ OrderBy \/ GroupBy \/ Populate \/ Search
    \/ First \/ Join \/ GetKnexQuery

Spec == Init /\ [][Next]_vars

\* the column resolver called under every kind
NextAlias ==
    \/ Select \/ Insert \/ Delete \/ Update \/ Count \/ AliasColumn

SpecAlias == Init /\ [][NextAlias]_vars

\* init called on a builder that may already be configured
NextInit ==
    \/ InitOp \/ Delete \/ Where \/ Limit \/ OrderBy

SpecInit == Init /\ [][NextInit]_vars

\* configuring a query and executing it; the builder has one caller, which
\* makes no call while an execute is pending
NextExec ==
    \/ Delete \/ Update \/ Count \/ Join \/ Populate \/ Where \/ WhereInvalid
    \/ Execute
    \/ QueryResolves \/ QueryRejects \/ PopulateResolves \/ PopulateRejects

SpecExec == Init /\ [][NextExec]_vars

\* two builders drawing aliases, one of them also joining and compiling
NextAlloc ==
    \/ GetAlias \/ PeerGetAlias \/ Join \/ GetKnexQuery

SpecAlloc == Init /\ [][NextAlloc]_vars

----------------------------------------------------------------------------
(* Reading a native query *)

IsCompile == obs.op = "getKnexQuery"

OpsOf(q) == {q.calls[i].op : i \in DOMAIN q.calls}

CallsOf(q, op) == SelectSeq(q.calls, LAMBDA c : c.op = op)

\* the arguments of the calls of one method, in call order (one argument each)
ArgsOf(q, op) == [i \in DOMAIN CallsOf(q, op) |-> CallsOf(q, op)[i].arg[1]]

Rewritten(q) == "whereIn" \in OpsOf(q)

\* the query wrapped by the nested sub-query of a rewritten query
Inner(q) == CallsOf(q, "whereIn")[1].arg[2].calls[2].arg[1].query

NoDup(l) == \A i, j \in DOMAIN l : l[i] = l[j] => i = j

\* a bare column name qualified with the primary alias
Qual(c) == IF c.t = "string" /\ c.q = NoQ THEN Col(alias, c.n) ELSE c

KindOps == {"select", "insert", "update", "delete", "count", "truncate"}

OuterOps == {"limit", "offset", "orderBy", "first", "groupBy", "where", "search", "join"}

----------------------------------------------------------------------------
(* C1: compiling a builder whose kind is delete or update and that has a   *)
(* join yields an outer query of that same kind on the unaliased base      *)
(* table, with no join and the single filter id IN (inner), where inner    *)
(* is a select of id under the joins and filters of the builder.           *)
C1_OuterKeepsKind ==
    (IsCompile /\ obs.type \in {"delete", "update"} /\ Len(state.joins) > 0) =>
        LET q == obs.query
        IN /\ q.table = [name |-> tableName, alias |-> NoAlias]
           /\ Len(q.calls) = 2
           /\ q.calls[2].op = "whereIn"
           /\ q.calls[2].arg[1] = Id
           /\ "join" \notin OpsOf(q)
           /\ "select" \in OpsOf(Inner(q))
           /\ ArgsOf(Inner(q), "join") = state.joins
           /\ ArgsOf(Inner(q), "where") = state.where
           /\ q.calls[1].op = obs.type

C3_RewriteIff ==
    IsCompile =>
        /\ Rewritten(obs.query) <=>
             (obs.type \in {"update", "delete"} /\ Len(state.joins) > 0)
        /\ Rewritten(obs.query) => OpsOf(obs.query) \cap OuterOps = {}

C3_Witness ==
    /\ IsCompile
    /\ Rewritten(obs.query)
    /\ Truthy(state.limit)
    /\ "limit" \in OpsOf(Inner(obs.query))

(* C4: the select list handed to the native query by a select compile has  *)
(* no duplicate, keeps the configured columns in their order, and holds    *)
(* '*' only when the configured list was empty (or named '*').             *)
C4_SelectListUnique ==
    [][(obs'.op = "getKnexQuery" /\ state.type = "select") =>
         LET list == CallsOf(obs'.query, "select")[1].arg
             cfg == [k \in DOMAIN state.select |-> Qual(state.select[k])]
         IN /\ SelectSeq(list, LAMBDA c : c \in Range(cfg)) = cfg
            /\ Col(alias, "*") \in Range(list) => (cfg = <<>> \/ Col(alias, "*") \in Range(cfg))
            /\ NoDup(list)]_vars

(* C5 as stated: for a string column without '.', the resolver returns an  *)
(* alias-qualified reference iff the kind is select or count; non-string   *)
(* and already qualified references come back unchanged.                   *)
C5_AliasIffSelectOrCount ==
    obs.op = "aliasColumn" =>
        LET c == obs.columnName
            r == obs.result
        IN IF c.t = "string" /\ c.q = NoQ
           THEN (r.q # NoQ) <=> (state.type \in {"select", "count"})
           ELSE r = c

(* C5 amended: for a string column without '.', a call without an explicit *)
(* alias returns the column qualified with the primary alias iff the kind  *)
(* is select or count and the bare column for every other kind; a call     *)
(* with an explicit alias returns the column qualified with that alias,    *)
(* whatever the kind; non-string and already qualified references come     *)
(* back unchanged.                                                         *)
C5_AliasColumn ==
    obs.op = "aliasColumn" =>
        LET c == obs.columnName
            r == obs.result
        IN IF c.t = "string" /\ c.q = NoQ
           THEN IF isNil(obs.alias)
                THEN /\ (r.q # NoQ) <=> (state.type \in {"select", "count"})
                     /\ r.q \in {NoQ, alias}
                     /\ r.n = c.n
                ELSE r = Col(obs.alias.v, c.n)
           ELSE r = c

C5_Witness ==
    /\ obs.op = "aliasColumn"
    /\ state.type = "update"
    /\ isNil(obs.alias)
    /\ obs.columnName = Name
    /\ obs.result = Name

(* C6: a select compile with a join and an empty groupBy calls distinct on *)
(* the aliased id and puts the order-by columns, in order, in front of the *)
(* select list; with a groupBy, or without a join, there is no distinct    *)
(* and the select list is the configured one ('*' when empty).  The select *)
(* compiled inside a rewrite has its distinct iff groupBy is empty.        *)
C6_DistinctOnJoin ==
    [][/\ (obs'.op = "getKnexQuery" /\ state.type = "select") =>
            LET q == obs'.query
                list == CallsOf(q, "select")[1].arg
                cfg == IF state.select = <<>> THEN <<Star>> ELSE state.select
                acfg == [k \in DOMAIN cfg |-> Qual(cfg[k])]
                front == [k \in DOMAIN state.orderBy |-> Qual(state.orderBy[k].column)]
            IN IF Len(state.joins) > 0 /\ state.groupBy = <<>>
               THEN /\ ArgsOf(q, "distinct") = <<Col(alias, "id")>>
                    /\ list = front \o acfg
               ELSE /\ "distinct" \notin OpsOf(q)
                    /\ list = acfg
       /\ (obs'.op = "getKnexQuery" /\ Rewritten(obs'.query)) =>
            ("distinct" \in OpsOf(Inner(obs'.query)) <=> state.groupBy = <<>>)]_vars

C6_Witness ==
    /\ IsCompile
    /\ obs.type = "select"
    /\ Len(state.joins) > 0
    /\ Len(state.orderBy) = 2
    /\ "distinct" \in OpsOf(obs.query)
    /\ Len(CallsOf(obs.query, "select")[1].arg) = 3

(* C7: the query returned by compile carries exactly one of the clauses    *)
(* select / insert / update / delete / count / truncate, the one of the    *)
(* kind the builder had when compile was called.                           *)
C7_OneKindClause ==
    IsCompile =>
        LET k == SelectSeq(obs.query.calls, LAMBDA c : c.op \in KindOps)
        IN /\ Len(k) = 1
           /\ k[1].op = obs.type

(* C8: where called with a mapping (an omitted argument is the mapping {}) *)
(* pushes that one descriptor at the end of the filter list and changes    *)
(* nothing else; called with anything else it throws inside the call and   *)
(* leaves the whole query state as it was.                                 *)
C8_WhereAppends ==
    [][obs'.op = "where" =>
         LET w == IF obs'.arg = Undefined THEN Obj("empty") ELSE obs'.arg
         IN IF isPlainObject(w)
            THEN /\ obs'.ret = "this"
                 /\ state' = [state EXCEPT !.where = Append(state.where, w)]
            ELSE /\ obs'.ret = "throw"
                 /\ state' = state]_vars

C8_Witness ==
    /\ obs.op = "where"
    /\ obs.ret = "this"
    /\ Len(state.where) = 2
    /\ state.where[1] # state.where[2]
    /\ state.where[2] = obs.arg

Setters ==
    {"select", "addSelect", "insert", "update", "delete", "count", "where", "limit",
     "offset", "orderBy", "groupBy", "populate", "search", "first", "join"}

\* the fields a step changed
ChangedFields == {f \in Fields : state'[f] # state[f]}

(* C9 as stated: every setter changes one field of the query state, leaves *)
(* the others unchanged, and returns the builder.                          *)
C9_OneField ==
    [][obs'.op \in Setters =>
         /\ Cardinality(ChangedFields) <= 1
         /\ obs'.ret = "this"]_vars

\* the fields each setter assigns
Writes(op) ==
    CASE op = "select" -> {"type", "select"}
      [] op = "addSelect" -> {"select"}
      [] op \in {"insert", "update"} -> {"type", "data"}
      [] op = "delete" -> {"type"}
      [] op = "count" -> {"type", "count"}
      [] op = "join" -> {"joins"}
      [] OTHER -> {op}

(* C9 amended: every setter changes only the fields it assigns -- kind and *)
(* select list for select, kind and payload for insert and update, kind    *)
(* and count target for count, one field for every other setter -- and     *)
(* returns the builder, except where called with a non-mapping, which      *)
(* throws and changes nothing.                                             *)
C9_SetterFrame ==
    [][obs'.op \in Setters =>
         /\ ChangedFields \subseteq Writes(obs'.op)
         /\ \/ obs'.ret = "this"
            \/ obs'.op = "where" /\ ~isPlainObject(obs'.arg) /\ ChangedFields = {}]_vars

C9_Witness ==
    /\ obs.op = "insert"
    /\ obs.ret = "this"
    /\ state.type = "insert"
    /\ state.data = Obj("d1")
    /\ Truthy(state.offset)

\* the setter and the state field of a key of the options object
SetterOf(k) == IF k = "q" THEN "search" ELSE k

Present(p, k) == k \in DOMAIN p /\ (k \in {"orderBy", "groupBy"} \/ ~isNil(p[k]))

\* every present key dispatched with its value, nothing else but select
\* invoked, the default select list, and the fields of absent keys kept
InitDispatch(p, log, before, after) ==
    /\ \A k \in InitKeys :
         Present(p, k) =>
           \E i \in DOMAIN log : log[i].setter = SetterOf(k) /\ log[i].arg = p[k]
    /\ \A i \in DOMAIN log :
         \/ log[i].setter = "select"
         \/ \E k \in InitKeys : Present(p, k) /\ SetterOf(k) = log[i].setter
    /\ NoDup([i \in DOMAIN log |-> log[i].setter])
    /\ ~Present(p, "select") => after.select = <<Star>>
    /\ \A k \in InitKeys \ {"select"} :
         ~Present(p, k) => after[SetterOf(k)] = before[SetterOf(k)]

(* C10 as stated: for every options object init invokes the setter of each *)
(* present key with its value, no setter of an absent key but select, sets *)
(* the select list to <<'*'>> when select is absent, and keeps the fields  *)
(* of the absent keys.                                                     *)
C10_InitDispatch ==
    [][obs'.op = "init" => InitDispatch(obs'.params, obs'.calls, state, state')]_vars

(* C10 amended: the same, for every options object whose where value is    *)
(* nil or a mapping; when where is present and not a mapping, init throws  *)
(* out of the where setter, before any other setter is invoked, and keeps  *)
(* the whole state.                                                        *)
C10_InitDispatchOrThrow ==
    [][obs'.op = "init" =>
         IF Present(obs'.params, "where") /\ ~isPlainObject(obs'.params["where"])
         THEN /\ obs'.ret = "throw"
              /\ state' = state
              /\ obs'.calls = <<[setter |-> "where", arg |-> obs'.params["where"]]>>
         ELSE /\ obs'.ret = "this"
              /\ InitDispatch(obs'.params, obs'.calls, state, state')]_vars

C10_Witness ==
    /\ obs.op = "init"
    /\ obs.ret = "this"
    /\ DOMAIN obs.params = {"limit"}
    /\ state.limit = Num(2)
    /\ state.select = <<Star>>
    /\ Len(state.where) > 0
    /\ Len(state.orderBy) > 0

----------------------------------------------------------------------------
\* C11: a compiled insert asks for the key back ("returning id") exactly
\* when the dialect uses returning and the metadata declares the attribute
\* id; the compiled query of every other kind has no returning clause, at
\* either level of a rewritten query.
C11_ReturningIff ==
    IsCompile =>
        /\ "returning" \in OpsOf(obs.query)
              <=> (obs.type = "insert" /\ db.useReturning /\ db.hasId)
        /\ "returning" \in OpsOf(obs.query) =>
              /\ ArgsOf(obs.query, "returning") = <<Id>>
              /\ "insert" \in OpsOf(obs.query)
        /\ Rewritten(obs.query) => "returning" \notin OpsOf(Inner(obs.query))

\* an insert was compiled with the returning clause
C11_Witness ==
    /\ IsCompile
    /\ obs.type = "insert"
    /\ db.useReturning /\ db.hasId
    /\ ArgsOf(obs.query, "returning") = <<Id>>

----------------------------------------------------------------------------
\* the place of a clause in the order of lines 230-310
Rank(op) ==
    CASE op \in {"distinct", "select", "count", "insert", "returning",
                 "update", "delete"} -> 0
      [] op = "limit" -> 1
      [] op = "offset" -> 2
      [] op = "orderBy" -> 3
      [] op = "first" -> 4
      [] op = "groupBy" -> 5
      [] op = "where" -> 6
      [] op = "search" -> 7
      [] op = "join" -> 8
      [] OTHER -> 9

\* the query built by the compile that was not rewritten: the compiled query,
\* or the inner one of a rewritten query
Plain(q) == IF Rewritten(q) THEN Inner(q) ELSE q

Before(l, a, b) ==
    \E i, j \in DOMAIN l : i < j /\ l[i] = a /\ l[j] = b

\* C17: on every compile that is not rewritten the clauses are applied in
\* the order kind clause, limit, offset, order-by, first, group-by, where
\* filters, search group, joins, whatever the kind; the processors have run
\* before the kind clause, so the filters applied are the processed ones.
C17_ClauseOrder ==
    (IsCompile /\ obs.ret = "query") =>
        LET q == Plain(obs.query)
        IN /\ \A i, j \in DOMAIN q.calls :
                  i < j => Rank(q.calls[i].op) <= Rank(q.calls[j].op)
           /\ Len(q.calls) > 0
           /\ Rank(q.calls[1].op) = 0
           /\ \A i \in DOMAIN q.calls : Rank(q.calls[i].op) < 9
           /\ Before(obs.events, "processState", "switch")
           /\ \A i \in DOMAIN q.calls :
                  q.calls[i].op = "where" => q.calls[i].arg[1].norm

\* a count compiled with a filter and a join
C17_Witness ==
    /\ IsCompile
    /\ ~Rewritten(obs.query)
    /\ obs.type = "count"
    /\ {"count", "where", "join"} \subseteq OpsOf(obs.query)

----------------------------------------------------------------------------
\* the clause of one of the two paging fields in a compiled query
Paging(q, op, v) ==
    /\ op \in OpsOf(Plain(q)) <=> v \notin {Null, Num(0)}
    /\ op \in OpsOf(Plain(q)) => ArgsOf(Plain(q), op) = <<v>>
    /\ Rewritten(q) => op \notin OpsOf(q)

\* C20: a compile emits a limit clause exactly when the configured limit is
\* neither null nor 0, with the configured value unchanged, and an offset
\* clause likewise; a limit or offset of 0 compiles to the same query as
\* a null one.
C20_PagingIffNonZero ==
    [][(obs'.op = "getKnexQuery" /\ obs'.ret = "query") =>
          /\ Paging(obs'.query, "limit", state.limit)
          /\ Paging(obs'.query, "offset", state.offset)
          /\ state.limit = Num(0) =>
                obs'.query = getKnexQuery([state EXCEPT !.limit = Null], alias, db).query
          /\ state.offset = Num(0) =>
                obs'.query = getKnexQuery([state EXCEPT !.offset = Null], alias, db).query
      ]_vars

\* a query was compiled with a limit of 0 and a positive offset
C20_Witness ==
    /\ IsCompile
    /\ state.limit = Num(0)
    /\ state.offset = Num(1)
    /\ "limit" \notin OpsOf(obs.query)
    /\ ArgsOf(obs.query, "offset") = <<Num(1)>>

----------------------------------------------------------------------------
\* C15: a compile is a pure, deterministic transform: it leaves every field
\* of the builder state as the caller configured it, and a compile that
\* directly follows a compile of the same builder yields the same query.
C15_CompilePure ==
    [][(obs'.op = "getKnexQuery" /\ obs'.ret = "query") =>
          /\ state' = state
          /\ (obs.op = "getKnexQuery" /\ obs.ret = "query") =>
                obs'.query = obs.query
      ]_vars

----------------------------------------------------------------------------
\* the clause refers to the primary alias of the builder
RefsAlias(c) ==
    CASE c.op \in {"select", "distinct"} ->
           \E i \in DOMAIN c.arg : c.arg[i].q = alias
      [] c.op = "orderBy" ->
           \E i \in DOMAIN c.arg : c.arg[i].column.q = alias
      [] c.op = "search" -> c.arg[2] = alias
      [] OTHER -> FALSE

\* C19: in a compiled query a clause refers to the primary alias only if
\* the table of that query is bound under the alias; the select, order-by
\* and search clauses of an insert, update or delete, whose table is not
\* aliased, never refer to it.
C19_AliasOnlyIfBound ==
    (IsCompile /\ obs.ret = "query") =>
        \A q \in {obs.query, Plain(obs.query)} :
            (\E i \in DOMAIN q.calls : RefsAlias(q.calls[i]))
                => q.table.alias = alias

----------------------------------------------------------------------------
Times(l, e) == Cardinality({i \in DOMAIN l : l[i] = e})

\* the last call made is an execute call, and it has returned
Returned == obs.op = "execute" /\ exec.pc = "returned"

\* C12: when the awaited native query fails, the error is passed to
\* transformErrors exactly once and the execute call throws: it returns no
\* result and awaits no second native query. An error of the compile is
\* raised before the native query is awaited.
C12_FailureTransformedOnce ==
    /\ "reject" \in Range(exec.log) =>
          /\ exec.pc = "thrown"
          /\ exec.transformed = 1
          /\ exec.result = [t |-> "error", v |-> "native"]
          /\ "return" \notin Range(exec.log)
          /\ Times(exec.log, "await") = 1
          /\ exec.log[Len(exec.log)] = "transformErrors"
    /\ exec.result = [t |-> "error", v |-> "compile"] =>
          /\ exec.pc = "thrown"
          /\ exec.transformed = 1
          /\ "await" \notin Range(exec.log)

\* the native query of an execute call has failed
C12_Witness ==
    /\ obs.op = "execute"
    /\ "reject" \in Range(exec.log)
    /\ exec.pc = "thrown"

\* an execute call has failed in the compile
C12_WitnessCompile ==
    /\ obs.op = "execute"
    /\ exec.result = [t |-> "error", v |-> "compile"]

----------------------------------------------------------------------------
\* C13: an execute call maps the rows exactly when mapResults is true and
\* the kind the caller configured is select; the result of any other kind,
\* a joined update or delete included, is returned as the native query
\* gave it.
C13_MapsIffSelect ==
    Returned =>
        /\ "fromRow" \in Range(exec.log)
              <=> (exec.mapResults /\ exec.kind = "select")
        /\ exec.result = IF exec.mapResults /\ exec.kind = "select"
                         THEN fromRow(exec.rows) ELSE exec.rows

----------------------------------------------------------------------------
\* C14: the population runs exactly when the builder has a populate
\* specification and the native query gave a result that is not null; it
\* starts after the native query has completed, it has completed before the
\* call returns, and the rows are mapped after it.
C14_PopulateIffRows ==
    /\ exec.pc = "awaitQuery" => "applyPopulate" \notin Range(exec.log)
    /\ exec.pc = "awaitPopulate" =>
          /\ Before(exec.log, "rows", "applyPopulate")
          /\ Range(exec.log) \cap {"fromRow", "return"} = {}
    /\ Returned =>
          /\ "applyPopulate" \in Range(exec.log)
                <=> (Truthy(state.populate) /\ ~isNil(exec.rows))
          /\ "applyPopulate" \in Range(exec.log) =>
                /\ Before(exec.log, "rows", "applyPopulate")
                /\ Before(exec.log, "applyPopulate", "populated")
                /\ Before(exec.log, "populated", "return")
                /\ ~Before(exec.log, "return", "populated")
                /\ "fromRow" \in Range(exec.log) =>
                      Before(exec.log, "populated", "fromRow")

\* an execute call has populated and mapped its rows and returned
C14_Witness ==
    /\ Returned
    /\ exec.log[Len(exec.log)] = "return"
    /\ {"applyPopulate", "populated", "fromRow"} \subseteq Range(exec.log)

----------------------------------------------------------------------------
\* C16: getAlias returns t0, t1, t2, ... in this order, so never a token it
\* returned before; the primary alias is the first token, t0, and is never
\* issued again; the tokens of a second builder are t0, t1, ... whatever the
\* first builder has drawn in between.
C16_FreshAliases ==
    /\ \A i \in DOMAIN issued : issued[i] = Tok(i - 1)
    /\ NoDup(issued)
    /\ counter = Len(issued)
    /\ alias = issued[1]
    /\ \A i \in DOMAIN issued : i > 1 => issued[i] # alias
    /\ \A i \in DOMAIN peer.issued : peer.issued[i] = Tok(i - 1)
    /\ NoDup(peer.issued)
    /\ peer.counter = Len(peer.issued)
    /\ peer.alias = peer.issued[1]
    /\ obs.op = "getAlias" => obs.result = issued[Len(issued)]
    /\ obs.op = "peer.getAlias" => obs.result = peer.issued[Len(peer.issued)]

\* the two builders have drawn aliases in turn
C16_Witness ==
    /\ obs.op = "peer.getAlias"
    /\ Len(issued) = 3
    /\ Len(peer.issued) = 3

----------------------------------------------------------------------------
\* the filters and the populate specification are as the caller gave them
RawDescriptors(s) ==
    /\ \A i \in DOMAIN s.where : ~s.where[i].norm
    /\ s.populate.t = "object" => ~s.populate.norm

\* a step that is an execute call whose compile succeeded
ExecuteCall == obs'.op = "execute" /\ steps' = steps + 1 /\ exec'.pc = "awaitQuery"

OncePerExecute ==
    /\ Times(exec'.log, "compile") = 1
    /\ Times(exec'.log, "processState") = 1
    /\ Times(exec'.log, "runSubQuery") <= 1
    /\ Times(exec'.log, "await") = 1
    /\ Before(exec'.log, "compile", "processState")
    /\ Before(exec'.log, "processState", "await")
    /\ "runSubQuery" \in Range(exec'.log) =>
          Before(exec'.log, "runSubQuery", "processState")

====
